---------------------------- MODULE Spec2Model ----------------------------
(***************************************************************************)
(* Model of the friend-relationship and alert handlers of attention-api    *)
(* (src/v2/views.py).  The Friend table is a function from the unique key  *)
(* (owner, friend) to a row; the FCMTokens table is a set of (user, token) *)
(* rows.  Every request handler is one action that runs to completion      *)
(* (the specification Spec serves the requests one after another); the     *)
(* latest request and its response are kept in the variable last.          *)
(* Requests name another username than the caller's, the devices of        *)
(* Devices are the ones registered and the users of Renamers the ones who  *)
(* rename.  time.time() is an input of the handlers that read it: the      *)
(* system clock is not monotonic, and two requests may read the same value.*)
(* The specification SpecConc serves requests concurrently: each worker    *)
(* of Workers serves one request, one database statement (or transaction)  *)
(* per step, on a table a run of Spec has left behind.                     *)
(***************************************************************************)
EXTENDS Integers, FiniteSets, Sequences, TLC

\* ------------------------------------------------------------------ bounds
MaxCount == 2      \* sends are served while the counters they touch are below it
NumWorkers == 2    \* requests served concurrently under SpecConc

\* ------------------------------------------------------------ the universe
Users       == {"alice", "bob"}          \* rows of the user table
Usernames   == Users \cup {"ghost"}      \* "ghost" names no user
Others(u)   == Usernames \ {u}           \* a request names another username
Friends(u)  == Users \ {u}               \* ... or another user
Devices     == {<<"bob", "t1">>, <<"bob", "t2">>}  \* registrations requested
Renamers    == {"alice"}                 \* users who call edit_friend_name
Names       == {"X"}                     \* new_name values of edit_friend_name
Tokens      == {"t1", "t2"}              \* fcm_token strings
BadTokens   == {"t2"}                    \* tokens the messenger rejects
Null        == "null"                    \* a NULL name column
NoAlert     == 0                         \* a NULL last_sent_alert_id column
Times       == {1, 2}                    \* values time.time() returns
AlertIds    == Times                     \* alert_id values a request carries
Workers     == 1..NumWorkers             \* concurrent request workers

VARIABLES
    edges,     \* Friend table: [existing <<owner, friend>> -> row]
    tokens,    \* FCMTokens table: set of <<user, fcm_token>>
    last,      \* the latest request and its response
    start,     \* SpecConc: the Friend table the concurrent requests found
    procs      \* SpecConc: [worker -> the request it serves and its locals]

vars == <<edges, tokens, last, start, procs>>

\* The row a Friend(owner=..., friend=...) is created with (model defaults).
NewFriend ==
    [name |-> Null, deleted |-> FALSE, sent |-> 0, received |-> 0,
     last_sent_alert_id |-> NoAlert, last_sent_message_read |-> FALSE]

\* first_name and last_name of a user, as f'{first_name} {last_name}'.
FullName(u) == IF u = "alice" THEN "Alice A" ELSE "Bob B"

Exists(E, o, f) == <<o, f>> \in DOMAIN E

\* Friend.objects.get(owner=o, friend=f, deleted=False) finds a row.
Live(E, o, f) == Exists(E, o, f) /\ ~E[<<o, f>>].deleted

\* rel.<field> = ...; rel.save() on the existing row (o, f).
Save(E, o, f, row) == [E EXCEPT ![<<o, f>>] = row]

\* INSERT of the row (o, f).
Insert(E, o, f, row) ==
    [k \in DOMAIN E \cup {<<o, f>>} |-> IF k = <<o, f>> THEN row ELSE E[k]]

\* Merge that starts from a new row instead of the row found.
Merge_over_new(row, defaults) ==
    [k \in DOMAIN row |-> IF k \in DOMAIN defaults THEN defaults[k] ELSE NewFriend[k]]

\* The fields named in defaults overwrite those of row, the others are kept.
Merge(row, defaults) ==
    [k \in DOMAIN row |-> IF k \in DOMAIN defaults THEN defaults[k] ELSE row[k]]

\* update_or_create that replaces an existing row by a new one.
update_or_create_recreates(E, o, f, defaults) ==
    Insert(E, o, f, Merge(NewFriend, defaults))

\* Friend.objects.update_or_create(owner=o, friend=f, defaults=defaults):
\* the table afterwards.
update_or_create(E, o, f, defaults) ==
    IF Exists(E, o, f)
    THEN Save(E, o, f, Merge(E[<<o, f>>], defaults))
    ELSE Insert(E, o, f, Merge(NewFriend, defaults))

\* No row: what a lookup that raises DoesNotExist leaves to record.
NoRow == [absent |-> TRUE]

\* The row (o, f) as a lookup finds it.
RowOf(E, o, f) == IF Exists(E, o, f) THEN E[<<o, f>>] ELSE NoRow

\* The latest request (op, user, to, alert, token), its response (result,
\* name, id), the tokens a message was submitted to (attempted), the row
\* (user, to) a relationship handler found (before) and, for an add_friend
\* that directly follows the successful delete_friend of the same pair, the
\* row that delete_friend found (removed); the friends of get_user_info.
NoResponse ==
    [op |-> "none", user |-> "none", to |-> "none", result |-> "none",
     name |-> Null, id |-> NoAlert, alert |-> NoAlert, token |-> "none",
     attempted |-> {}, before |-> NoRow, removed |-> NoRow, friends |-> {}]

Response(op, user, to, result) ==
    [NoResponse EXCEPT !.op = op, !.user = user, !.to = to, !.result = result]

\* A worker that serves no request: pc is the place in the handler, row the
\* model object (rows: the evaluated queryset) the handler holds, alert the
\* alert_id of the request (alert_read) or of time.time() (send_alert).
IdleProc ==
    [pc |-> "idle", op |-> "none", user |-> "none", to |-> "none",
     name |-> Null, alert |-> NoAlert, row |-> NoRow, rows |-> <<>>,
     result |-> "none"]

Init ==
    /\ edges = <<>>
    /\ tokens = {}
    /\ last = NoResponse
    /\ start = <<>>
    /\ procs = [w \in Workers |-> IdleProc]

\* POST register_device by user with fcm_token t.
register_device(user, t) ==
    /\ IF <<user, t>> \in tokens
       THEN /\ UNCHANGED tokens
            /\ last' = [Response("register_device", user, "none", "AlreadyExists")
                          EXCEPT !.token = t]
       ELSE /\ tokens' = tokens \cup {<<user, t>>}
            /\ last' = [Response("register_device", user, "none", "ok")
                          EXCEPT !.token = t]
    /\ UNCHANGED edges

\* POST add_friend by user with username.
add_friend(user, username) ==
    /\ IF username \notin Users
       THEN /\ UNCHANGED edges
            /\ last' = Response("add_friend", user, username, "UserNotFound")
       ELSE /\ edges' = update_or_create(edges, user, username, [deleted |-> FALSE])
            /\ last' = [Response("add_friend", user, username, "ok")
                          EXCEPT !.before = RowOf(edges, user, username),
                                 !.removed =
                                    IF /\ last.op = "delete_friend"
                                       /\ last.result = "ok"
                                       /\ last.user = user
                                       /\ last.to = username
                                    THEN last.before ELSE NoRow]
    /\ UNCHANGED tokens

\* edit_friend_name that leaves the created row as it is.
mark_created_live(E, user, f, created) == E

\* edit_friend_name that marks the row deleted whether created or not.
mark_always_deleted(E, user, f, created) ==
    Save(E, user, f, [E[<<user, f>>] EXCEPT !.deleted = TRUE])

\* edit_friend_name: if created: rel.deleted = True; rel.save()
mark_created_deleted(E, user, f, created) ==
    IF created
    THEN Save(E, user, f, [E[<<user, f>>] EXCEPT !.deleted = TRUE])
    ELSE E

\* PUT edit_friend_name by user with username and new_name.
edit_friend_name(user, username, new_name) ==
    /\ IF username \notin Users
       THEN /\ UNCHANGED edges
            /\ last' = Response("edit_friend_name", user, username, "UserNotFound")
       ELSE /\ edges' = mark_created_deleted(
                            update_or_create(edges, user, username,
                                             [name |-> new_name]),
                            user, username, ~Exists(edges, user, username))
            /\ last' = [Response("edit_friend_name", user, username, "ok")
                          EXCEPT !.name = new_name,
                                 !.before = RowOf(edges, user, username)]
    /\ UNCHANGED tokens

\* The name get_friend_name answers with for an existing user f.
friend_name(E, user, f) ==
    IF Exists(E, user, f) THEN E[<<user, f>>].name ELSE FullName(f)

\* GET get_friend_name by user with username.
get_friend_name(user, username) ==
    /\ IF username \notin Users
       THEN last' = Response("get_friend_name", user, username, "UserNotFound")
       ELSE last' = [Response("get_friend_name", user, username, "ok")
                       EXCEPT !.name = friend_name(edges, user, username)]
    /\ UNCHANGED <<edges, tokens>>

\* delete_friend: Friend.objects.select_for_update().get(owner=user,
\* friend__username=f) finds a row.
delete_friend_found(E, user, f) == Exists(E, user, f)

\* delete_friend that removes the row instead of setting deleted.
delete_friend_hard(user, friend) ==
    /\ IF delete_friend_found(edges, user, friend)
       THEN /\ edges' = [k \in DOMAIN edges \ {<<user, friend>>} |-> edges[k]]
            /\ last' = [Response("delete_friend", user, friend, "ok")
                          EXCEPT !.before = RowOf(edges, user, friend)]
       ELSE /\ UNCHANGED edges
            /\ last' = [Response("delete_friend", user, friend, "NotFriends")
                          EXCEPT !.before = RowOf(edges, user, friend)]
    /\ UNCHANGED tokens

\* DELETE delete_friend by user with friend.
delete_friend(user, friend) ==
    /\ IF delete_friend_found(edges, user, friend)
       THEN /\ edges' = Save(edges, user, friend,
                             [edges[<<user, friend>>] EXCEPT !.deleted = TRUE])
            /\ last' = [Response("delete_friend", user, friend, "ok")
                          EXCEPT !.before = RowOf(edges, user, friend)]
       ELSE /\ UNCHANGED edges
            /\ last' = [Response("delete_friend", user, friend, "NotFriends")
                          EXCEPT !.before = RowOf(edges, user, friend)]
    /\ UNCHANGED tokens

\* flatten_friend(friend) of the row k: friend.name or the friend's first
\* and last name.
flatten_friend(E, k) ==
    [friend |-> k[2],
     name |-> IF E[k].name # Null THEN E[k].name ELSE FullName(k[2]),
     sent |-> E[k].sent, received |-> E[k].received,
     last_message_id_sent |-> E[k].last_sent_alert_id,
     last_message_read |-> E[k].last_sent_message_read]

\* A listing that hides the deleted rows.
friends_of_live(E, user) ==
    {flatten_friend(E, k) : k \in {x \in DOMAIN E : x[1] = user /\ ~E[x].deleted}}

\* get_user_info: [flatten_friend(x) for x in Friend.objects.filter(owner=user)]
friends_of(E, user) ==
    {flatten_friend(E, k) : k \in {x \in DOMAIN E : x[1] = user}}

\* GET get_user_info by user.
get_user_info(user) ==
    /\ last' = [Response("get_user_info", user, "none", "ok")
                  EXCEPT !.friends = friends_of(edges, user)]
    /\ UNCHANGED <<edges, tokens>>

\* FCMTokens.objects.filter(user__username=u)
TokensOf(T, u) == {t \in Tokens : <<u, t>> \in T}

\* messaging.send(message) for one token: returns, or raises
\* InvalidArgumentError.
messaging_send(t) == IF t \in BadTokens THEN "InvalidArgumentError" ELSE "sent"

\* A loop in which any InvalidArgumentError clears the flag.
RECURSIVE fan_out_all_or_nothing(_, _)
fan_out_all_or_nothing(todo, acc) ==
    IF todo = {} THEN acc
    ELSE LET t == CHOOSE x \in todo : TRUE
         IN  fan_out_all_or_nothing(todo \ {t},
                 [attempted |-> acc.attempted \cup {t},
                  at_least_one_success |->
                      /\ acc.attempted = {} \/ acc.at_least_one_success
                      /\ messaging_send(t) = "sent"])

\* The loop "for token in tokens" of send_alert and alert_read over the
\* tokens todo: the tokens a message was submitted to and the flag
\* at_least_one_success.  InvalidArgumentError is caught and logged.
RECURSIVE fan_out(_, _)
fan_out(todo, acc) ==
    IF todo = {} THEN acc
    ELSE LET t == CHOOSE x \in todo : TRUE
         IN  fan_out(todo \ {t},
                     [attempted |-> acc.attempted \cup {t},
                      at_least_one_success |->
                          acc.at_least_one_success \/ messaging_send(t) = "sent"])

\* at_least_one_success: bool = False; for token in tokens: ...
FanOut(todo) == fan_out(todo, [attempted |-> {}, at_least_one_success |-> FALSE])

\* A permission check on the sender's own row.
can_send_own_row(E, user, to) == Live(E, user, to)

\* send_alert: Friend.objects.get(owner__username=to,
\* friend__username=request.user.username, deleted=False) finds a row.
can_send(E, user, to) == Live(E, to, user)

\* send_alert: friend.received += 1; friend.save() on the row (to, user).
increment_received(E, user, to) ==
    Save(E, to, user, [E[<<to, user>>] EXCEPT !.received = @ + 1])

\* send_alert: Friend.objects.get_or_create(owner__username=user,
\* friend__username=to, defaults={'deleted': True}) returns a row.  When no
\* row matches, the row is created from the defaults alone (the lookups
\* that span a relation are left out), without owner and friend, and the
\* INSERT raises IntegrityError.
get_or_create_returns(E, user, to) == Exists(E, user, to)

\* An update of the sender's row that leaves last_sent_message_read alone.
increment_sent_keeps_read(E, user, to, alert_id) ==
    Save(E, user, to, [E[<<user, to>>] EXCEPT !.sent = @ + 1,
                                              !.last_sent_alert_id = alert_id])

\* send_alert: friend.sent += 1; last_sent_alert_id; last_sent_message_read;
\* friend.save() on the row (user, to).
increment_sent(E, user, to, alert_id) ==
    Save(E, user, to, [E[<<user, to>>] EXCEPT !.sent = @ + 1,
                                              !.last_sent_alert_id = alert_id,
                                              !.last_sent_message_read = FALSE])

\* The counters a send touches are below the bound of the model.
BelowBound(E, user, to) ==
    /\ Live(E, to, user) => E[<<to, user>>].received < MaxCount
    /\ Exists(E, user, to) => E[<<user, to>>].sent < MaxCount

\* POST send_alert by user with to (and a message), time.time() returning
\* t.  The IntegrityError of get_or_create is not caught by the handler.
send_alert(user, to, t) ==
    /\ BelowBound(edges, user, to)
    /\ LET alert_id == t
           Sent(result) ==
               [Response("send_alert", user, to, result) EXCEPT !.alert = alert_id]
       IN  IF ~can_send(edges, user, to)
           THEN /\ UNCHANGED edges
                /\ last' = Sent("PermissionDenied")
           ELSE LET E1 == increment_received(edges, user, to)
                IN  IF ~get_or_create_returns(E1, user, to)
                    THEN /\ edges' = E1
                         /\ last' = Sent("IntegrityError")
                    ELSE /\ edges' = increment_sent(E1, user, to, alert_id)
                         /\ LET out == FanOut(TokensOf(tokens, to))
                            IN  last' =
                                  IF TokensOf(tokens, to) = {}
                                  THEN Sent("NoDevices")
                                  ELSE IF ~out.at_least_one_success
                                  THEN [Sent("DeliveryFailed")
                                          EXCEPT !.attempted = out.attempted]
                                  ELSE [Sent("ok")
                                          EXCEPT !.attempted = out.attempted,
                                                 !.id = alert_id]
    /\ UNCHANGED tokens

\* A match on last_sent_alert_id alone, whoever owns the row.
mark_read_any_owner(E, from, alert_id) ==
    [k \in DOMAIN E |->
        IF E[k].last_sent_alert_id = alert_id
        THEN [E[k] EXCEPT !.last_sent_message_read = TRUE]
        ELSE E[k]]

\* alert_read: every row of owner from with last_sent_alert_id = alert_id
\* gets last_sent_message_read = True.
mark_read(E, from, alert_id) ==
    [k \in DOMAIN E |->
        IF k[1] = from /\ E[k].last_sent_alert_id = alert_id
        THEN [E[k] EXCEPT !.last_sent_message_read = TRUE]
        ELSE E[k]]

\* alert_read: the tokens of from without fcm_token, united with the tokens
\* of the authenticated user.
read_tokens(T, user, from, fcm_token) ==
    (TokensOf(T, from) \ {fcm_token}) \cup TokensOf(T, user)

\* POST alert_read by user with alert_id, from and fcm_token, time.time()
\* returning t.  The messages carry alert_id = time.time().
alert_read(user, from, alert_id, fcm_token, t) ==
    /\ edges' = mark_read(edges, from, alert_id)
    /\ LET todo == read_tokens(tokens, user, from, fcm_token)
           out  == FanOut(todo)
           Read(result) ==
               [Response("alert_read", user, from, result)
                  EXCEPT !.alert = alert_id, !.token = fcm_token]
       IN  last' = IF todo = {}
                   THEN Read("NoRecipientDevices")
                   ELSE IF ~out.at_least_one_success
                   THEN [Read("DeliveryFailed")
                           EXCEPT !.attempted = out.attempted, !.id = t]
                   ELSE [Read("ok")
                           EXCEPT !.attempted = out.attempted, !.id = t]
    /\ UNCHANGED tokens

\* Under Spec no request is served concurrently.
NoWorker == UNCHANGED <<start, procs>>

Next ==
    \/ NoWorker /\ \E d \in Devices : register_device(d[1], d[2])
    \/ NoWorker /\ \E u \in Users : \E n \in Others(u) : add_friend(u, n)
    \/ NoWorker /\ \E u \in Renamers : \E n \in Others(u), x \in Names :
                      edit_friend_name(u, n, x)
    \/ NoWorker /\ \E u \in Users : \E n \in Others(u) : get_friend_name(u, n)
    \/ NoWorker /\ \E u \in Users : \E n \in Friends(u) : delete_friend(u, n)
    \/ NoWorker /\ \E u \in Users : get_user_info(u)
    \/ NoWorker /\ \E u \in Users : \E n \in Friends(u), t \in Times :
                      send_alert(u, n, t)
    \/ NoWorker /\ \E u \in Users : \E n \in Friends(u), a \in AlertIds,
                                        d \in Tokens, t \in Times :
                      alert_read(u, n, a, d, t)

Spec == Init /\ [][Next]_vars

(***************************************************************************)
(* Concurrent requests.  The handlers run without a transaction (settings  *)
(* set no ATOMIC_REQUESTS), so every ORM call commits on its own and the   *)
(* calls of two requests interleave.  update_or_create and the             *)
(* transaction.atomic() block of delete_friend are one step each.          *)
(* Model.save() writes every field of the object the handler holds.        *)
(***************************************************************************)

\* Tables a run of Spec leaves behind: empty; bob has added alice; both have
\* added each other; and alice has then sent bob the alert 1.
OneWay == update_or_create(<<>>, "bob", "alice", [deleted |-> FALSE])
Mutual == update_or_create(OneWay, "alice", "bob", [deleted |-> FALSE])
AfterSend ==
    increment_sent(increment_received(Mutual, "alice", "bob"), "alice", "bob", 1)
StartTables == {<<>>, OneWay, Mutual, AfterSend}

InitC ==
    /\ edges \in StartTables
    /\ start = edges
    /\ tokens = Devices
    /\ last = NoResponse
    /\ procs = [w \in Workers |-> IdleProc]

\* Worker w receives the request (op, user, to).
Request(op, user, to) == [IdleProc EXCEPT !.op = op, !.user = user, !.to = to]

\* Worker w moves on to p, its other locals being those of q.
Goto(w, q, p) == procs' = [procs EXCEPT ![w] = [q EXCEPT !.pc = p]]

\* Worker w returns the response result.
Return(w, q, result) ==
    procs' = [procs EXCEPT ![w] = [q EXCEPT !.pc = "done", !.result = result]]

\* add_friend: the user lookup and update_or_create (107-109).
c_add_friend(w, user, username) ==
    /\ procs[w].pc = "idle"
    /\ IF username \notin Users
       THEN /\ UNCHANGED edges
            /\ Return(w, Request("add_friend", user, username), "UserNotFound")
       ELSE /\ edges' = update_or_create(edges, user, username, [deleted |-> FALSE])
            /\ Return(w, Request("add_friend", user, username), "ok")
    /\ UNCHANGED <<tokens, last, start>>

\* delete_friend: the transaction (204-209).
c_delete_friend(w, user, friend) ==
    /\ procs[w].pc = "idle"
    /\ IF delete_friend_found(edges, user, friend)
       THEN /\ edges' = Save(edges, user, friend,
                             [edges[<<user, friend>>] EXCEPT !.deleted = TRUE])
            /\ Return(w, Request("delete_friend", user, friend), "ok")
       ELSE /\ UNCHANGED edges
            /\ Return(w, Request("delete_friend", user, friend), "NotFriends")
    /\ UNCHANGED <<tokens, last, start>>

\* edit_friend_name: the user lookup and update_or_create (146-148); rel is
\* the row as update_or_create returns it.
c_edit_update_or_create(w, user, username, new_name) ==
    /\ procs[w].pc = "idle"
    /\ LET q == [Request("edit_friend_name", user, username) EXCEPT !.name = new_name]
       IN  IF username \notin Users
           THEN /\ UNCHANGED edges
                /\ Return(w, q, "UserNotFound")
           ELSE /\ edges' = update_or_create(edges, user, username,
                                             [name |-> new_name])
                /\ IF Exists(edges, user, username)
                   THEN Return(w, q, "ok")
                   ELSE Goto(w, [q EXCEPT !.row = edges'[<<user, username>>]],
                             "created")
    /\ UNCHANGED <<tokens, last, start>>

\* edit_friend_name: if created: rel.deleted = True; rel.save() (149-151).
c_edit_save(w) ==
    /\ procs[w].pc = "created"
    /\ edges' = Save(edges, procs[w].user, procs[w].to,
                     [procs[w].row EXCEPT !.deleted = TRUE])
    /\ Return(w, procs[w], "ok")
    /\ UNCHANGED <<tokens, last, start>>

\* send_alert: alert_id = time.time() and the get of the row (to, user) with
\* deleted=False (349-351).
c_send_get(w, user, to, t) ==
    /\ procs[w].pc = "idle"
    /\ LET q == [Request("send_alert", user, to) EXCEPT !.alert = t]
       IN  IF ~can_send(edges, user, to)
           THEN Return(w, q, "PermissionDenied")
           ELSE Goto(w, [q EXCEPT !.row = edges[<<to, user>>]], "received")
    /\ UNCHANGED <<edges, tokens, last, start>>

\* send_alert: friend.received += 1; friend.save() (352-353).
c_send_save_received(w) ==
    /\ procs[w].pc = "received"
    /\ edges' = Save(edges, procs[w].to, procs[w].user,
                     [procs[w].row EXCEPT !.received = @ + 1])
    /\ Goto(w, procs[w], "get_or_create")
    /\ UNCHANGED <<tokens, last, start>>

\* send_alert: get_or_create of the row (user, to) (354-355).
c_send_get_or_create(w) ==
    /\ procs[w].pc = "get_or_create"
    /\ IF ~get_or_create_returns(edges, procs[w].user, procs[w].to)
       THEN Return(w, procs[w], "IntegrityError")
       ELSE Goto(w, [procs[w] EXCEPT
                        !.row = edges[<<procs[w].user, procs[w].to>>]], "sent")
    /\ UNCHANGED <<edges, tokens, last, start>>

\* send_alert: friend.sent += 1; last_sent_alert_id; last_sent_message_read;
\* friend.save() (356-359), and the delivery (364-396).
c_send_save_sent(w) ==
    /\ procs[w].pc = "sent"
    /\ edges' = Save(edges, procs[w].user, procs[w].to,
                     [procs[w].row EXCEPT !.sent = @ + 1,
                                          !.last_sent_alert_id = procs[w].alert,
                                          !.last_sent_message_read = FALSE])
    /\ LET todo == TokensOf(tokens, procs[w].to)
       IN  Return(w, procs[w],
                  IF todo = {} THEN "NoDevices"
                  ELSE IF ~FanOut(todo).at_least_one_success THEN "DeliveryFailed"
                  ELSE "ok")
    /\ UNCHANGED <<tokens, last, start>>

\* The response of alert_read with fcm_token (420-454).
read_result(T, user, from, fcm_token) ==
    LET todo == read_tokens(T, user, from, fcm_token)
    IN  IF todo = {} THEN "NoRecipientDevices"
        ELSE IF ~FanOut(todo).at_least_one_success THEN "DeliveryFailed"
        ELSE "ok"

\* alert_read: the queryset friends_read as the loop evaluates it (414-416);
\* without a matching row the loop body never runs.
c_read_filter(w, user, from, alert_id, fcm_token) ==
    /\ procs[w].pc = "idle"
    /\ LET q == [Request("alert_read", user, from) EXCEPT !.alert = alert_id]
           found == {k \in DOMAIN edges :
                        k[1] = from /\ edges[k].last_sent_alert_id = alert_id}
       IN  IF found = {}
           THEN Return(w, q, read_result(tokens, user, from, fcm_token))
           ELSE Goto(w, [q EXCEPT !.rows = [k \in found |-> edges[k]]], "read")
    /\ UNCHANGED <<edges, tokens, last, start>>

\* alert_read: friend.last_sent_message_read = True; friend.save() for the
\* rows of friends_read (416-418), and the delivery (420-454).
c_read_save(w, fcm_token) ==
    /\ procs[w].pc = "read"
    /\ edges' = [k \in DOMAIN edges |->
                    IF k \in DOMAIN procs[w].rows
                    THEN [procs[w].rows[k] EXCEPT !.last_sent_message_read = TRUE]
                    ELSE edges[k]]
    /\ Return(w, procs[w],
              read_result(tokens, procs[w].user, procs[w].to, fcm_token))
    /\ UNCHANGED <<tokens, last, start>>

NextC ==
    \E w \in Workers :
        \/ \E u \in Users : \E n \in Others(u) : c_add_friend(w, u, n)
        \/ \E u \in Users : \E n \in Friends(u) : c_delete_friend(w, u, n)
        \/ \E u \in Renamers : \E n \in Others(u), x \in Names :
               c_edit_update_or_create(w, u, n, x)
        \/ c_edit_save(w)
        \/ \E u \in Users : \E n \in Friends(u), t \in Times : c_send_get(w, u, n, t)
        \/ c_send_save_received(w)
        \/ c_send_get_or_create(w)
        \/ c_send_save_sent(w)
        \/ \E u \in Users : \E n \in Friends(u), a \in AlertIds, d \in Tokens :
               c_read_filter(w, u, n, a, d)
        \/ \E d \in Tokens : c_read_save(w, d)

SpecConc == InitC /\ [][NextC]_vars

\* ------------------------------------------------------------------ claims
\* The requests of last: sender S and recipient R of a send_alert, owner O
\* and friend F of a relationship request.
IsSend(r)   == r.op = "send_alert"
IsRead(r)   == r.op = "alert_read"
\* The step serves a send_alert, an alert_read.
SendStep    == IsSend(last')
ReadStep    == IsRead(last')
LastKey     == <<last.user, last.to>>
LastReverse == <<last.to, last.user>>

\* C1: a send_alert of S to R is refused with PermissionDenied exactly when
\* the row (R, S) does not exist or is deleted at the time of the request.
C1_PermissionIffRecipientFriended ==
    [][SendStep =>
         LET S == last'.user
             R == last'.to
         IN  (last'.result # "PermissionDenied")
               <=> (<<R, S>> \in DOMAIN edges /\ ~edges[<<R, S>>].deleted)]_vars

\* C1 witness: S has R as a live friend, R removed S, and S's send to R was
\* refused.
C1_Witness ==
    /\ IsSend(last) /\ last.result = "PermissionDenied"
    /\ LastKey \in DOMAIN edges /\ ~edges[LastKey].deleted
    /\ LastReverse \in DOMAIN edges /\ edges[LastReverse].deleted

\* C2: a send_alert of S to R that succeeds leaves (R, S).received and
\* (S, R).sent one greater than before, (S, R).last_sent_alert_id equal to
\* the returned id and (S, R).last_sent_message_read false.
C2_SuccessfulSendCounts ==
    [][(SendStep /\ last'.result = "ok") =>
         LET SR == <<last'.user, last'.to>>
             RS == <<last'.to, last'.user>>
         IN  /\ SR \in DOMAIN edges /\ RS \in DOMAIN edges
             /\ edges'[RS].received = edges[RS].received + 1
             /\ edges'[SR].sent = edges[SR].sent + 1
             /\ edges'[SR].last_sent_alert_id = last'.id
             /\ last'.id # NoAlert
             /\ ~edges'[SR].last_sent_message_read]_vars

\* C2 witness: the second successful send along a row, which now counts two
\* sends.
C2_Witness ==
    /\ IsSend(last) /\ last.result = "ok"
    /\ edges[LastKey].sent = 2 /\ edges[LastReverse].received = 2
    /\ edges[LastKey].last_sent_alert_id = last.id

\* C3: delete_friend of (O, F) succeeds, and sets deleted, only when the
\* row (O, F) exists and is not deleted; otherwise it fails with NotFriends.
C3_RemoveNeedsLiveEdge ==
    (last.op = "delete_friend") =>
        IF last.before # NoRow /\ ~last.before.deleted
        THEN last.result = "ok" /\ edges[LastKey].deleted
        ELSE last.result = "NotFriends"

\* C4: alert_read submits no message to the fcm_token of the request.
C4_AckingTokenNotNotified ==
    IsRead(last) => last.token \notin last.attempted

\* C5: after a send_alert of S to R, the increment of (R, S).received and
\* the increment of (S, R).sent have both been applied or neither has.
C5_CountersAllOrNothing ==
    [][SendStep =>
         LET SR == <<last'.user, last'.to>>
             RS == <<last'.to, last'.user>>
             received(E) == IF RS \in DOMAIN E THEN E[RS].received ELSE 0
             sent(E)     == IF SR \in DOMAIN E THEN E[SR].sent ELSE 0
         IN  (received(edges') = received(edges) + 1)
               <=> (sent(edges') = sent(edges) + 1)]_vars

\* C6: a send_alert that gets to a recipient with registered tokens submits
\* the alert to every token of the recipient, answers ok exactly when the
\* messenger accepted at least one of them and DeliveryFailed exactly when
\* it rejected them all; a rejected token raises nothing.
C6_FanOutToleratesInvalidTokens ==
    (/\ IsSend(last)
     /\ last.result \notin {"PermissionDenied", "IntegrityError"}
     /\ TokensOf(tokens, last.to) # {}) =>
        /\ last.attempted = TokensOf(tokens, last.to)
        /\ last.result \in {"ok", "DeliveryFailed"}
        /\ (last.result = "ok") <=> (last.attempted \ BadTokens # {})
        /\ (last.result = "DeliveryFailed") <=> (last.attempted \subseteq BadTokens)

\* C6 witness: the recipient has a token the messenger rejects and one it
\* accepts, both were submitted to, and the send succeeded.
C6_Witness ==
    /\ IsSend(last) /\ last.result = "ok"
    /\ last.attempted \cap BadTokens # {}
    /\ last.attempted \ BadTokens # {}

\* C7: get_friend_name of (O, F), F a user, answers the name of the row
\* (O, F) when the row exists with a name, and F's own 'first last'
\* otherwise.
C7_DisplayNameFallsBack ==
    (last.op = "get_friend_name" /\ last.result = "ok") =>
        last.name = IF LastKey \in DOMAIN edges /\ edges[LastKey].name # Null
                    THEN edges[LastKey].name
                    ELSE FullName(last.to)

\* C8: delete_friend of (O, F) directly followed by add_friend of (O, F)
\* leaves the row (O, F) not deleted, every other field as it was before
\* the delete_friend.
C8_RemoveThenAddRestores ==
    (last.op = "add_friend" /\ last.removed # NoRow) =>
        /\ LastKey \in DOMAIN edges
        /\ ~edges[LastKey].deleted
        /\ \A k \in DOMAIN NewFriend \ {"deleted"} :
              edges[LastKey][k] = last.removed[k]

\* C8 witness: the restored row was live before the removal and has a name,
\* counters and an acknowledged alert to keep.
C8_Witness ==
    /\ last.op = "add_friend" /\ last.removed # NoRow
    /\ ~last.removed.deleted
    /\ last.removed.name # Null
    /\ last.removed.sent > 0 /\ last.removed.received > 0
    /\ last.removed.last_sent_message_read

\* C9: edit_friend_name of (O, F) with X, when no row (O, F) exists,
\* creates the row with name X and deleted set, so that F may not send to O,
\* and get_friend_name of (O, F) then answers X.
C9_RenameCreatesDeletedEdge ==
    (last.op = "edit_friend_name" /\ last.result = "ok" /\ last.before = NoRow) =>
        /\ LastKey \in DOMAIN edges
        /\ edges[LastKey].name = last.name
        /\ edges[LastKey].deleted
        /\ ~can_send(edges, last.to, last.user)
        /\ friend_name(edges, last.user, last.to) = last.name

\* C9 witness: a rename has created the row (O, F) while F has O as a live
\* friend.
C9_Witness ==
    /\ last.op = "edit_friend_name" /\ last.result = "ok" /\ last.before = NoRow
    /\ LastKey \in DOMAIN edges
    /\ LastReverse \in DOMAIN edges /\ ~edges[LastReverse].deleted

\* C10: alert_read with from and alert_id sets last_sent_message_read on
\* every row of owner from whose last_sent_alert_id is alert_id, and leaves
\* every field of every other row, and the set of rows, as they were.
C10_AckMarksOnlyMatchingEdges ==
    [][ReadStep =>
         /\ DOMAIN edges' = DOMAIN edges
         /\ \A k \in DOMAIN edges :
               IF k[1] = last'.to /\ edges[k].last_sent_alert_id = last'.alert
               THEN /\ edges'[k].last_sent_message_read
                    /\ \A x \in DOMAIN NewFriend \ {"last_sent_message_read"} :
                          edges'[k][x] = edges[k][x]
               ELSE edges'[k] = edges[k]]_vars

\* C10 witness: the acknowledged row is marked read while a row of another
\* owner carrying the same alert id is not.
C10_Witness ==
    /\ IsRead(last)
    /\ \E k \in DOMAIN edges :
          /\ k[1] = last.to
          /\ edges[k].last_sent_alert_id = last.alert
          /\ edges[k].last_sent_message_read
    /\ \E k \in DOMAIN edges :
          /\ k[1] # last.to
          /\ edges[k].last_sent_alert_id = last.alert
          /\ ~edges[k].last_sent_message_read

\* C11: no step of any interleaving of add_friend, edit_friend_name,
\* delete_friend, send_alert and alert_read lowers sent or received of an
\* existing row, and no row disappears.
C11_CountersNeverDecrease ==
    [][\A k \in DOMAIN edges :
          /\ k \in DOMAIN edges'
          /\ edges'[k].sent >= edges[k].sent
          /\ edges'[k].received >= edges[k].received]_vars

\* C12: add_friend on a row that is live succeeds and changes no field of
\* any row; add_friend with the username of no user answers UserNotFound and
\* changes no row, so creates none.
C12_AddFriendIdempotent ==
    [][last'.op = "add_friend" =>
          /\ (last'.to \notin Users =>
                 last'.result = "UserNotFound" /\ edges' = edges)
          /\ (/\ <<last'.user, last'.to>> \in DOMAIN edges
              /\ ~edges[<<last'.user, last'.to>>].deleted
              => last'.result = "ok" /\ edges' = edges)]_vars

\* An add_friend has found its row live, with alerts counted on it.
C12_Witness ==
    /\ last.op = "add_friend"
    /\ last.result = "ok"
    /\ last.before # NoRow
    /\ ~last.before.deleted
    /\ last.before.sent > 0
    /\ last.before.name # Null

\* C13: the listing of get_user_info has exactly one entry for every row the
\* user owns, deleted or not, with the counters of that row, and no entry
\* for any other row.
C13_ListingHasEveryOwnedRow ==
    last.op = "get_user_info" =>
        /\ \A k \in DOMAIN edges :
              k[1] = last.user =>
                  /\ Cardinality({e \in last.friends : e.friend = k[2]}) = 1
                  /\ \A e \in last.friends :
                        e.friend = k[2] =>
                            /\ e.sent = edges[k].sent
                            /\ e.received = edges[k].received
                            /\ e.last_message_id_sent = edges[k].last_sent_alert_id
                            /\ e.last_message_read = edges[k].last_sent_message_read
        /\ \A e \in last.friends : <<last.user, e.friend>> \in DOMAIN edges
        /\ Cardinality(last.friends) =
               Cardinality({k \in DOMAIN edges : k[1] = last.user})

\* A listing that holds a deleted row with alerts counted on it.
C13_Witness ==
    /\ last.op = "get_user_info"
    /\ \E k \in DOMAIN edges :
          /\ k[1] = last.user
          /\ edges[k].deleted
          /\ edges[k].received > 0
          /\ \E e \in last.friends : e.friend = k[2] /\ e.received = edges[k].received


\* The workers that serve a send_alert by S to R.
Senders(S, R) ==
    {w \in Workers : procs[w].op = "send_alert" /\ procs[w].user = S /\ procs[w].to = R}

\* Worker w has returned from a send_alert that passed the permission check
\* and wrote both counters.
SendCompleted(w) ==
    /\ procs[w].op = "send_alert"
    /\ procs[w].pc = "done"
    /\ procs[w].result \in {"ok", "NoDevices", "DeliveryFailed"}

\* C14: when the concurrent requests are all send_alert by S to R and each
\* has passed the permission check and written its counters, received of
\* (R, S) and sent of (S, R) have grown by the number of requests.
C14_NoLostIncrement ==
    \A S \in Users : \A R \in Friends(S) :
        (/\ Senders(S, R) = Workers
         /\ \A w \in Workers : SendCompleted(w)
         /\ <<S, R>> \in DOMAIN start)
        => /\ edges[<<R, S>>].received = start[<<R, S>>].received + NumWorkers
           /\ edges[<<S, R>>].sent = start[<<S, R>>].sent + NumWorkers

\* C15: once a delete_friend by R of S has returned success, the row (R, S)
\* is deleted, whatever the concurrent send_alert requests by S to R do.
C15_SendCannotUndoRemove ==
    \A w \in Workers :
        (/\ procs[w].op = "delete_friend"
         /\ procs[w].pc = "done"
         /\ procs[w].result = "ok"
         /\ \A v \in Workers \ {w} :
               \/ procs[v].op = "none"
               \/ v \in Senders(procs[w].to, procs[w].user))
        => edges[<<procs[w].user, procs[w].to>>].deleted

\* C16: when an edit_friend_name and an add_friend by O for F that found no
\* row (O, F) have both returned success, the row is live and carries the
\* new name.
C16_RenameAddSerializable ==
    \A w \in Workers : \A v \in Workers \ {w} :
        (/\ procs[w].op = "edit_friend_name"
         /\ procs[v].op = "add_friend"
         /\ procs[w].pc = "done" /\ procs[w].result = "ok"
         /\ procs[v].pc = "done" /\ procs[v].result = "ok"
         /\ procs[v].user = procs[w].user
         /\ procs[v].to = procs[w].to
         /\ <<procs[w].user, procs[w].to>> \notin DOMAIN start
         /\ \A x \in Workers \ {w, v} : procs[x].op = "none")
        => /\ ~edges[<<procs[w].user, procs[w].to>>].deleted
           /\ edges[<<procs[w].user, procs[w].to>>].name = procs[w].name

\* C17: a send_alert by S to R that passes the permission check and finds no
\* row (S, R) creates it deleted, with sent = 1, the alert id of the request
\* and the read flag cleared.
C17_SendCreatesDeletedEdge ==
    [][(/\ IsSend(last')
        /\ <<last'.to, last'.user>> \in DOMAIN edges
        /\ ~edges[<<last'.to, last'.user>>].deleted
        /\ <<last'.user, last'.to>> \notin DOMAIN edges)
       => /\ <<last'.user, last'.to>> \in DOMAIN edges'
          /\ edges'[<<last'.user, last'.to>>].deleted
          /\ edges'[<<last'.user, last'.to>>].sent = 1
          /\ edges'[<<last'.user, last'.to>>].last_sent_alert_id = last'.alert
          /\ ~edges'[<<last'.user, last'.to>>].last_sent_message_read]_vars

\* C18: edit_friend_name for a row that exists changes the name of that row
\* and nothing else, in that row or in any other.
C18_RenameChangesOnlyName ==
    [][(/\ last'.op = "edit_friend_name"
        /\ <<last'.user, last'.to>> \in DOMAIN edges)
       => /\ last'.result = "ok"
          /\ edges' = [edges EXCEPT ![<<last'.user, last'.to>>].name = last'.name]]_vars

\* An edit_friend_name has renamed a live row that had no name and alerts
\* counted on it, the reverse row existing.
C18_Witness ==
    /\ last.op = "edit_friend_name"
    /\ last.result = "ok"
    /\ last.before # NoRow
    /\ ~last.before.deleted
    /\ last.before.name = Null
    /\ last.before.received > 0
    /\ <<last.to, last.user>> \in DOMAIN edges
    /\ edges[<<last.user, last.to>>].name = last.name

\* sent and received of the row (o, f), 0 when there is no row.
SentOf(E, o, f) == IF <<o, f>> \in DOMAIN E THEN E[<<o, f>>].sent ELSE 0
ReceivedOf(E, o, f) == IF <<o, f>> \in DOMAIN E THEN E[<<o, f>>].received ELSE 0

\* C19: between requests, sent of the row (S, R) equals received of the row
\* (R, S), a missing row counting as 0.
C19_SentEqualsReceived ==
    \A S \in Users : \A R \in Friends(S) :
        SentOf(edges, S, R) = ReceivedOf(edges, R, S)

\* C20: once a send_alert by S to R has written the row (S, R), an
\* alert_read for S that carries another alert id, concurrent or later,
\* neither marks the new alert read nor takes last_sent_alert_id or sent
\* back.
C20_StaleAckLeavesNewerSend ==
    \A w \in Workers :
        (/\ SendCompleted(w)
         /\ <<procs[w].user, procs[w].to>> \in DOMAIN start
         /\ \A v \in Workers \ {w} :
               \/ procs[v].op = "none"
               \/ /\ procs[v].op = "alert_read"
                  /\ procs[v].to = procs[w].user
                  /\ procs[v].alert # procs[w].alert)
        => LET k == <<procs[w].user, procs[w].to>>
           IN  /\ edges[k].last_sent_alert_id = procs[w].alert
               /\ ~edges[k].last_sent_message_read
               /\ edges[k].sent = start[k].sent + 1


\* C21: every read message that alert_read submits carries the alert_id of
\* the request.
C21_ReadCarriesAcknowledgedId ==
    (IsRead(last) /\ last.attempted # {}) => last.id = last.alert

\* C22: no request removes a row; a request adds at most the row of its own
\* pair (user, to); and add_friend, edit_friend_name and delete_friend by O
\* for F leave deleted and name of the reverse row (F, O) as they were.
C22_EdgesPersist ==
    [][/\ DOMAIN edges \subseteq DOMAIN edges'
       /\ DOMAIN edges' \ DOMAIN edges \subseteq {<<last'.user, last'.to>>}
       /\ (/\ last'.op \in {"add_friend", "edit_friend_name", "delete_friend"}
           /\ <<last'.to, last'.user>> \in DOMAIN edges)
          => /\ edges'[<<last'.to, last'.user>>].deleted =
                    edges[<<last'.to, last'.user>>].deleted
             /\ edges'[<<last'.to, last'.user>>].name =
                    edges[<<last'.to, last'.user>>].name]_vars

\* A delete_friend has succeeded: its row is still there, deleted, with the
\* alerts counted on it, and the reverse row is live and named.
C22_Witness ==
    /\ last.op = "delete_friend"
    /\ last.result = "ok"
    /\ ~last.before.deleted
    /\ LastKey \in DOMAIN edges
    /\ edges[LastKey].deleted
    /\ edges[LastKey].received > 0
    /\ LastReverse \in DOMAIN edges
    /\ ~edges[LastReverse].deleted
    /\ edges[LastReverse].name # Null

=============================================================================
